---- MODULE Spec2Model ----
(***************************************************************************)
(* SIMuRG batch-job client of Polar-lights: deduplicated submission        *)
(* (SimurgClient.create_or_reuse_query_id), status polling                 *)
(* (_SimurgDownloader._wait_and_download) and resumable artifact retrieval *)
(* (_SimurgDownloader._download_result / BaseDownloader._download_result). *)
(*                                                                         *)
(* The remote service (control endpoint and artifact endpoint) is the      *)
(* environment: its answers are drawn nondeterministically from the        *)
(* behaviours the client code distinguishes.                               *)
(***************************************************************************)
EXTENDS Integers, Sequences, FiniteSets, TLC

VARIABLES
    \* ---- remote service, control endpoint
    jobs,       \* the listing for the identity: a sequence of job records
    srvIdKind,  \* "str" | "int": how the server writes a job id in JSON
    srvIso,     \* whether the server echoes times as YYYY-MM-DDTHH:MM:SS
    nAdv,       \* status changes the server has made
    \* ---- SimurgClient.create_or_reuse_query_id
    cpc,        \* position: "idle" | "list" | "post" | "relist"
    cur,        \* the running call: its request and what it has seen
    last,       \* the record of the last call that ended
    prevRet,    \* what the call before it returned
    nCalls,     \* calls made
    \* ---- _SimurgDownloader._wait_and_download
    ppc,        \* position: "idle" | "poll" | "download" | "raised"
    qid,        \* the query_id argument
    \* ---- every remote operation and sleep of the control plane, in order
    log,
    \* ---- _download_result
    dpc,        \* position: "idle" | "loop" | "stream" | "returned" | "raised"
    url,        \* the url argument (path tokens)
    fs,         \* out_dir: file name -> content (<<>>: absent or empty)
    offset,     \* local offset (line 119, reset at line 138)
    range,      \* Range header of the last GET (NoRange: none sent)
    status,     \* status code of the last response
    mode,       \* mode the file was opened with
    total_size, \* _extract_total_size of the last response (NoneSize: None)
    resp,       \* the last response: Content-Range, Content-Length, body length
    body,       \* bytes of the response body not yet read
    outcome,    \* "none" | "path" | "RuntimeError" | "RequestException"
    \* ---- artifact endpoint and bookkeeping of one _download_result call
    srvRange,   \* "honors" | "ignores": what the server does with Range
    initFile,   \* content of the destination when the call started
    firstRange, \* Range header of the first GET of the call (Unset: none yet)
    nReq,       \* GETs issued
    nExc,       \* transport exceptions raised by the GET or the body stream
    nEarly,     \* bodies the server closed early without an error
    nSleep,     \* time.sleep(polling_interval) calls of _download_result
    \* ---- callers that run at the same time
    other,      \* a second caller of create_or_reuse_query_id, same identity
    peer        \* a second _download_result call, same out_dir

srvVars  == <<jobs, srvIdKind, srvIso, nAdv>>
crVars   == <<cpc, cur, last, prevRet, nCalls>>
pollVars == <<ppc, qid>>
dlVars   == <<dpc, url, fs, offset, range, status, mode, total_size, resp, body,
              outcome, srvRange, initFile, firstRange, nReq, nExc, nEarly,
              nSleep>>
coVars   == <<other, peer>>
vars     == <<srvVars, crVars, pollVars, log, dlVars, coVars>>

-----------------------------------------------------------------------------
(* Bounds of the model                                                     *)

\* size of the artifact in bytes
Total == 3
\* chunk_size of iter_content, scaled down from 1 MiB
ChunkSize == 2
\* transport exceptions, early closes and rejections per _download_result call
MaxFaults == 2
\* jobs in the listing before the first call
MaxInitJobs == 2
\* status changes the server makes
MaxAdvances == 1
\* calls of create_or_reuse_query_id
MaxCalls == 2
\* status queries of one _wait_and_download call
MaxPolls == 3
\* GETs of the second _download_result call
MaxPeerGets == 2

-----------------------------------------------------------------------------
(* Python values                                                           *)

PyNone == <<"none", "">>
PyStr(s) == <<"str", s>>
PyInt(s) == <<"int", s>>
\* str(v)
Str(v) == IF v[1] = "none" THEN PyStr("None") ELSE PyStr(v[2])
\* bool(v)
Truthy(v) == v[1] # "none" /\ v[2] # "" /\ ~(v[1] = "int" /\ v[2] = "0")

Min(a, b) == IF a < b THEN a ELSE b

\* s is a prefix of t
IsPrefix(s, t) == Len(s) <= Len(t) /\ SubSeq(t, 1, Len(s)) = s

-----------------------------------------------------------------------------
(* Strings that the code takes apart, as sequences of characters           *)

\* "2025-11-12 00:00", "2025-11-12 00:01", "2025-11-13 00:00"
TsDay1 == <<"2","0","2","5","-","1","1","-","1","2"," ","0","0",":","0","0">>
TsDay1Late == <<"2","0","2","5","-","1","1","-","1","2"," ","0","0",":","0","1">>
TsDay2 == <<"2","0","2","5","-","1","1","-","1","3"," ","0","0",":","0","0">>
\* Python None where a time string is expected
NoneTs == <<"None">>

\* str.strip()
RECURSIVE LStrip(_)
LStrip(s) == IF s # <<>> /\ s[1] = " " THEN LStrip(Tail(s)) ELSE s

RECURSIVE RStrip(_)
RStrip(s) ==
    IF s # <<>> /\ s[Len(s)] = " " THEN RStrip(SubSeq(s, 1, Len(s) - 1)) ELSE s

Strip(s) == RStrip(LStrip(s))

\* str.replace("T", " ")
ReplaceT(s) == [i \in 1..Len(s) |-> IF s[i] = "T" THEN " " ELSE s[i]]

\* the length of 'YYYY-MM-DD HH:MM'
NormLen == 16

\* _norm_dt that leaves the ISO separator in place
NormDtKeepT(s) ==
    IF s = NoneTs THEN NoneTs
    ELSE LET t == Strip(s)
         IN  IF Len(t) >= NormLen THEN SubSeq(t, 1, NormLen) ELSE t

\* _norm_dt that keeps the seconds: the cut to 16 characters left out
NormDtKeepSeconds(s) == IF s = NoneTs THEN NoneTs ELSE ReplaceT(Strip(s))

\* SimurgClient._norm_dt
NormDt(s) ==
    IF s = NoneTs THEN NoneTs
    ELSE LET t == ReplaceT(Strip(s))
         IN  IF Len(t) >= NormLen THEN SubSeq(t, 1, NormLen) ELSE t

\* str.lower() on the job-type labels in use
Lower(s) ==
    CASE s = "MAP" -> "map"
      [] s = "Create_Map" -> "create_map"
      [] OTHER -> s

\* a < b for strings given as sequences of character codes
RECURSIVE LexLess(_, _)
LexLess(a, b) ==
    IF b = <<>> THEN FALSE
    ELSE IF a = <<>> THEN TRUE
    ELSE IF a[1] # b[1] THEN a[1] < b[1]
    ELSE LexLess(Tail(a), Tail(b))

\* a dict is a set of <<key, value>> pairs; NoDict is None
NoDict == [kind |-> "none", d |-> {}]
Dict(pairs) == [kind |-> "dict", d |-> pairs]
DictKeys(d) == {p[1] : p \in d}
\* dict.get(k)
DictGet(d, k) == IF k \in DictKeys(d) THEN (CHOOSE p \in d : p[1] = k)[2] ELSE PyNone

-----------------------------------------------------------------------------
(* Requests                                                                *)

\* RotiDownloader._args
CoordsWorld ==
    Dict({<<"minlat", PyInt("-90")>>, <<"maxlat", PyInt("90")>>,
          <<"minlon", PyInt("-180")>>, <<"maxlon", PyInt("180")>>})
OptRoti == Dict({<<"product_type", PyStr("roti")>>, <<"format", PyStr("hdf5")>>})
OptTec == Dict({<<"product_type", PyStr("tec")>>, <<"format", PyStr("hdf5")>>})
FlagsOff ==
    Dict({<<"create_plots", <<"bool", "False">> >>,
          <<"create_movie", <<"bool", "False">> >>})

\* RotiDownloader for one day
ReqRoti ==
    [method |-> "create_map", begin |-> TsDay1, end |-> TsDay2,
     coordinates |-> CoordsWorld, options |-> OptRoti, flags |-> FlagsOff]
\* the same with another product
ReqTec == [ReqRoti EXCEPT !.options = OptTec]
\* the same without a coordinates block
ReqRotiAnywhere == [ReqRoti EXCEPT !.coordinates = NoDict]
\* the same, beginning a minute later
ReqRotiLate == [ReqRoti EXCEPT !.begin = TsDay1Late]
\* KeogramDownloader: a method and a time range only
ReqKeogram ==
    [method |-> "keogram", begin |-> TsDay1, end |-> TsDay2,
     coordinates |-> NoDict, options |-> NoDict, flags |-> NoDict]

\* the same with plots asked for
ReqRotiPlots ==
    [ReqRoti EXCEPT !.flags = Dict({<<"create_plots", <<"bool", "True">> >>,
                                    <<"create_movie", <<"bool", "False">> >>})]
\* the same for the northern hemisphere
ReqRotiNorth ==
    [ReqRoti EXCEPT !.coordinates =
        Dict({<<"minlat", PyInt("0")>>, <<"maxlat", PyInt("90")>>,
              <<"minlon", PyInt("-180")>>, <<"maxlon", PyInt("180")>>})]
\* the same with latitudes only
ReqRotiNoLon ==
    [ReqRoti EXCEPT !.coordinates =
        Dict({<<"minlat", PyInt("-90")>>, <<"maxlat", PyInt("90")>>})]

\* the same under the server's own label
ReqRotiAsMap == [ReqRoti EXCEPT !.method = "map"]

\* what callers ask for
Requests == {ReqRoti, ReqTec, ReqKeogram}
\* what the jobs already on the server were created from
PastRequests == {ReqRoti, ReqRotiAnywhere, ReqRotiLate}

-----------------------------------------------------------------------------
(* Control endpoint                                                        *)

Lifecycle == <<"new", "prepared", "processed", "plot", "done">>
LifecycleIndex(s) == CHOOSE i \in 1..Len(Lifecycle) : Lifecycle[i] = s

FileNames == {"a.h5", "b.h5"}
FileOf(i) == IF i % 2 = 1 THEN "a.h5" ELSE "b.h5"
\* paths.data of job i once it is done
ResultPath(i) ==
    IF i % 2 = 1 THEN <<"/", "res", "/", FileOf(i)>> ELSE <<"res", "/", FileOf(i)>>

\* the id of the i-th job of the identity, as the server writes it
SrvId(kind, i) == IF kind = "int" THEN PyInt(ToString(i)) ELSE PyStr(ToString(i))
\* the type label the server lists a job under
SrvLabel(method) == IF method = "create_map" THEN "map" ELSE method
\* a time as the server echoes it
SrvEcho(iso, ts) ==
    IF iso /\ Len(ts) = NormLen
    THEN [i \in 1..NormLen |-> IF i = 11 THEN "T" ELSE ts[i]] \o <<":", "0", "0">>
    ELSE ts
\* coordinates as the server echoes them: with a defaulted key added
SrvCoords(c) ==
    IF c.kind = "dict" THEN Dict(c.d \cup {<<"step", PyInt("1")>>}) ELSE c
\* the 'created' stamp of the i-th job
Stamp(i) == <<i>>
\* the 'created' field of a record: a string, or absent
Created(stamp) == [kind |-> "str", s |-> stamp]
NoCreated == [kind |-> "none", s |-> <<>>]

\* the record the server lists for the i-th job, created from request req
SrvRecord(kind, iso, req, i, st, path) ==
    [id |-> SrvId(kind, i), type |-> SrvLabel(req.method),
     begin |-> SrvEcho(iso, req.begin), end |-> SrvEcho(iso, req.end),
     coordinates |-> SrvCoords(req.coordinates), options |-> req.options,
     status |-> st, created |-> Created(Stamp(i)), data |-> path]

\* the server moves job i one step along its lifecycle
SrvAdvance(i) ==
    /\ nAdv < MaxAdvances
    /\ jobs[i].status[1] = "str"
    /\ jobs[i].status[2] \in {"new", "prepared", "processed", "plot"}
    /\ LET nxt == Lifecycle[LifecycleIndex(jobs[i].status[2]) + 1]
       IN  \E path \in IF nxt = "done" THEN {ResultPath(i), <<>>} ELSE {<<>>} :
             jobs' = [jobs EXCEPT ![i] = [@ EXCEPT !.status = PyStr(nxt),
                                                   !.data = path]]
    /\ nAdv' = nAdv + 1
    /\ UNCHANGED <<srvIdKind, srvIso>>

\* the server gives job i up: its status becomes "error"
SrvBreak(i) ==
    /\ nAdv < MaxAdvances
    /\ jobs[i].status \in {PyStr("new"), PyStr("prepared"), PyStr("processed"),
                           PyStr("plot")}
    /\ jobs' = [jobs EXCEPT ![i] = [@ EXCEPT !.status = PyStr("error")]]
    /\ nAdv' = nAdv + 1
    /\ UNCHANGED <<srvIdKind, srvIso>>

\* the server finishes job i between two requests of the client
SrvFinish(i) ==
    /\ nAdv < MaxAdvances
    /\ jobs[i].status \in {PyStr("new"), PyStr("prepared"), PyStr("processed")}
    /\ jobs' = [jobs EXCEPT ![i] = [@ EXCEPT !.status = PyStr("done"),
                                          !.data = ResultPath(i)]]
    /\ nAdv' = nAdv + 1
    /\ UNCHANGED <<srvIdKind, srvIso>>

\* the server's step, seen from the client
SrvStep ==
    /\ \E i \in 1..Len(jobs) : SrvAdvance(i)
    /\ UNCHANGED <<crVars, pollVars, log, dlVars>>
    /\ UNCHANGED coVars

SrvFailure ==
    /\ \E i \in 1..Len(jobs) : SrvBreak(i)
    /\ UNCHANGED <<crVars, pollVars, log, dlVars>>
    /\ UNCHANGED coVars

SrvCompletion ==
    /\ \E i \in 1..Len(jobs) : SrvFinish(i)
    /\ UNCHANGED <<crVars, pollVars, log, dlVars>>
    /\ UNCHANGED coVars

Ids(js) == [i \in 1..Len(js) |-> js[i].id]
Event(op) == [op |-> op, st |-> PyNone, data |-> <<>>]

-----------------------------------------------------------------------------
(* SimurgClient                                                            *)

\* the 'type' of a record that has none (Python None)
NoType == "<None>"

\* line 140: str(server_query.get("type") or "").lower()
ServerType(q) == IF q.type = NoType THEN "" ELSE Lower(q.type)

\* the type test without the alias
TypeMatchExact(server_type, payload_type) == server_type = payload_type

\* lines 140-143: the type test of _payload_match
TypeMatch(server_type, payload_type) ==
    ~ (~(server_type = "map" /\ payload_type = "create_map")
         /\ server_type # payload_type)

\* lines 151-161 and 163-173: the test of one block of _payload_match
BlockMatch(p, sv) ==
    p.kind # "none" =>
       /\ p.kind = "dict"
       /\ sv.kind = "dict"
       /\ \A k \in DictKeys(p.d) : DictGet(sv.d, k) = DictGet(p.d, k)

\* _payload_match by equality of the blocks, flags included
PayloadMatchStrict(q, payload_method, payload_args) ==
    /\ TypeMatch(ServerType(q), Lower(payload_method))
    /\ NormDt(q.begin) = NormDt(payload_args.begin)
    /\ NormDt(q.end) = NormDt(payload_args.end)
    /\ q.coordinates = payload_args.coordinates
    /\ q.options = payload_args.options
    /\ payload_args.flags = NoDict

\* _payload_match without the test of the options block
PayloadMatchNoOptions(q, payload_method, payload_args) ==
    /\ TypeMatch(ServerType(q), Lower(payload_method))
    /\ NormDt(q.begin) = NormDt(payload_args.begin)
    /\ NormDt(q.end) = NormDt(payload_args.end)
    /\ BlockMatch(payload_args.coordinates, q.coordinates)

\* SimurgClient._payload_match(server_query, payload_method, payload_args)
PayloadMatch(q, payload_method, payload_args) ==
    /\ TypeMatch(ServerType(q), Lower(payload_method))
    /\ NormDt(q.begin) = NormDt(payload_args.begin)
    /\ NormDt(q.end) = NormDt(payload_args.end)
    /\ BlockMatch(payload_args.coordinates, q.coordinates)
    /\ BlockMatch(payload_args.options, q.options)

\* the matcher passing over jobs that are still in flight
MatchedDoneOnly(queries, req) ==
    SelectSeq(queries, LAMBDA q : /\ PayloadMatch(q, req.method, req)
                                  /\ q.status = PyStr("done"))

\* line 198
Matched(queries, req) ==
    SelectSeq(queries, LAMBDA q : PayloadMatch(q, req.method, req))

\* line 203
DoneOf(matched) == SelectSeq(matched, LAMBDA q : q.status = PyStr("done"))

\* the sort key of line 205: str(q.get("created") or "")
CreatedKey(q) ==
    IF q.created.kind = "none" \/ q.created.s = <<>> THEN <<>> ELSE q.created.s

\* sorted(matched, key=..., reverse=True)[0]: the sort is stable, so the first
\* of the records with the greatest key
Newest(matched) ==
    matched[CHOOSE i \in 1..Len(matched) :
               /\ \A j \in 1..Len(matched) :
                     ~ LexLess(CreatedKey(matched[i]), CreatedKey(matched[j]))
               /\ \A j \in 1..(i - 1) :
                     LexLess(CreatedKey(matched[j]), CreatedKey(matched[i]))]

\* the newest record chosen whether or not a record is done
ChosenNewest(matched) == Newest(matched)

\* lines 203-206
Chosen(matched) ==
    IF DoneOf(matched) # <<>> THEN DoneOf(matched)[1] ELSE Newest(matched)

\* a client that never reuses a job
ReuseNever(matched) == FALSE

\* line 201: if matched
Reuse(matched) == matched # <<>>

\* the record of a call that ended: what it returned or that it raised
Ended(ret, err, op) ==
    [req |-> cur.req, ret |-> ret, err |-> err, cause |-> "none", msg |-> "",
     listed |-> cur.listed, listing |-> cur.listing, jobs0 |-> cur.jobs0,
     jobs1 |-> Ids(jobs), ops |-> Append(cur.ops, op)]

\* the call ends: its record replaces that of the call before it
Finish(call) ==
    /\ last' = call
    /\ prevRet' = last.ret

\* create_or_reuse_query_id(start_time, end_time, method, args_params) is called
CR_Call ==
    /\ cpc = "idle"
    /\ nCalls < MaxCalls
    /\ nCalls' = nCalls + 1
    /\ cur' = [req |-> cur.req, ops |-> <<>>, listed |-> FALSE, listing |-> <<>>,
               jobs0 |-> Ids(jobs)]
    /\ cpc' = "list"
    /\ UNCHANGED <<last, prevRet, srvVars, pollVars, log, dlVars>>
    /\ UNCHANGED coVars

\* lines 197-211: the listing arrives; reuse a match or go on to create
CR_List ==
    /\ cpc = "list"
    /\ LET matched == Matched(jobs, cur.req)
       IN  IF Reuse(matched)
           THEN /\ Finish(
                       [Ended(Str(Chosen(matched).id), "none", "check")
                           EXCEPT !.listing = jobs, !.listed = TRUE])
                /\ cpc' = "idle"
                /\ cur' = cur
           ELSE /\ cur' = [cur EXCEPT !.listing = jobs, !.listed = TRUE,
                                      !.ops = Append(@, "check")]
                /\ cpc' = "post"
                /\ UNCHANGED <<last, prevRet>>
    /\ UNCHANGED <<nCalls, srvVars, pollVars, log, dlVars>>
    /\ UNCHANGED coVars

\* what makes checking_by_mail raise: requests.post raises, the status is not
\* 200, the JSON body is not a list
ListFailures == {"no connection", "not 200", "not a list"}

\* checking_by_mail with one message for every failure
CheckingErrorOneMessage(cause) == "check failed"

\* the message of the RuntimeError of lines 81, 84-86 and 90, without its
\* arguments
CheckingError(cause) ==
    CASE cause = "no connection" -> "connection error with {url}: {exc}"
      [] cause = "not 200" -> "server returned code {status_code} on check"
      [] cause = "not a list" -> "expected a list of queries, got: {data}"

\* checking_by_mail raises
CR_ListFail ==
    /\ cpc \in {"list", "relist"}
    /\ \E cause \in ListFailures :
          Finish([Ended(PyNone, "RuntimeError", "check")
                     EXCEPT !.cause = cause, !.msg = CheckingError(cause)])
    /\ cpc' = "idle"
    /\ UNCHANGED <<cur, nCalls, srvVars, pollVars, log, dlVars>>
    /\ UNCHANGED coVars

\* create_query, lines 46-55: the creation POST is answered with 200
CR_Post ==
    /\ cpc = "post"
    /\ cur' = [cur EXCEPT !.ops = Append(@, "post")]
    /\ jobs' = Append(jobs, SrvRecord(srvIdKind, srvIso, cur.req, Len(jobs) + 1,
                                      PyStr("new"), <<>>))
    /\ cpc' = "relist"
    /\ UNCHANGED <<last, prevRet, nCalls, srvIdKind, srvIso, nAdv, pollVars, log, dlVars>>
    /\ UNCHANGED coVars

\* create_query, lines 46-55: the creation POST fails or is refused
CR_PostFail ==
    /\ cpc = "post"
    /\ Finish(Ended(PyNone, "RuntimeError", "post"))
    /\ cpc' = "idle"
    /\ UNCHANGED <<cur, nCalls, srvVars, pollVars, log, dlVars>>
    /\ UNCHANGED coVars

\* get_query_id with the first entry of the listing in place of the last
GetQueryIdFirst(queries) == Str(queries[1].id)

\* get_query_id, lines 66-68: str() of the id of the last entry
GetQueryId(queries) == Str(queries[Len(queries)].id)

\* create_query that looks its job up by the request: the id of the last entry
\* of the listing that matches it
CR_RelistMatching ==
    /\ cpc = "relist"
    /\ LET own == Matched(jobs, cur.req)
       IN  Finish(
              IF own = <<>> THEN Ended(PyNone, "IndexError", "check")
              ELSE Ended(Str(own[Len(own)].id), "none", "check"))
    /\ cpc' = "idle"
    /\ UNCHANGED <<cur, nCalls, srvVars, pollVars, log, dlVars>>
    /\ UNCHANGED coVars

\* create_query, lines 57-62, and get_query_id
CR_Relist ==
    /\ cpc = "relist"
    /\ Finish(
          IF jobs = <<>> THEN Ended(PyNone, "IndexError", "check")
          ELSE IF ~ Truthy(GetQueryId(jobs)) THEN Ended(PyNone, "RuntimeError", "check")
          ELSE Ended(GetQueryId(jobs), "none", "check"))
    /\ cpc' = "idle"
    /\ UNCHANGED <<cur, nCalls, srvVars, pollVars, log, dlVars>>
    /\ UNCHANGED coVars

\* create_query, lines 46-55: the creation POST is answered with 200 and the
\* listing does not show the job
CR_PostUnlisted ==
    /\ cpc = "post"
    /\ cur' = [cur EXCEPT !.ops = Append(@, "post")]
    /\ cpc' = "relist"
    /\ UNCHANGED <<last, prevRet, nCalls, srvVars, pollVars, log, dlVars>>
    /\ UNCHANGED coVars

\* create_query, lines 46-55: the creation POST is answered with 200 and the
\* listing shows the job in a record without an id
CR_PostNoId ==
    /\ cpc = "post"
    /\ cur' = [cur EXCEPT !.ops = Append(@, "post")]
    /\ jobs' = Append(jobs, [SrvRecord(srvIdKind, srvIso, cur.req, Len(jobs) + 1,
                                       PyStr("new"), <<>>) EXCEPT !.id = PyNone])
    /\ cpc' = "relist"
    /\ UNCHANGED <<last, prevRet, nCalls, srvIdKind, srvIso, nAdv, pollVars, log, dlVars>>
    /\ UNCHANGED coVars

-----------------------------------------------------------------------------
(* Artifact endpoint                                                       *)

\* the bytes of the resource at the result URL
Resource == [i \in 1..Total |-> i]

\* a byte that is not the resource's byte at any position
Junk == 0

NoRange == -1
NoneSize == -1
Unset == -2
\* header values: absent, or present but not a decimal number
NoHeader == -1
NonDigit == -2

\* What the server answers to a GET for the resource res whose Range header
\* is rng. A server that honors Range answers 206 with the rest of the
\* resource, or with its next byte alone under a full Content-Range, and 416
\* when nothing is left; one that ignores it answers 200 with the full body.
\* Content-Range and Content-Length are sent or left out.
ResponsesFor(res, rng) ==
    IF srvRange = "honors" /\ rng # NoRange
    THEN IF rng < Len(res)
         THEN { [status |-> 206, body |-> SubSeq(res, rng + 1, Len(res)),
                 cr |-> c, cl |-> l] :
                   c \in {Len(res), NoHeader, NonDigit},
                   l \in {Len(res) - rng, NoHeader} }
              \cup
              { [status |-> 206, body |-> SubSeq(res, rng + 1, rng + 1),
                 cr |-> Len(res), cl |-> 1] }
         ELSE { [status |-> 416, body |-> <<>>, cr |-> NonDigit, cl |-> 0] }
    ELSE { [status |-> 200, body |-> res, cr |-> NoHeader, cl |-> l] :
             l \in {Len(res), NoHeader} }

Responses(rng) == ResponsesFor(Resource, rng)

\* a permanent rejection of the GET
RejectStatuses == {404, 403}

-----------------------------------------------------------------------------
(* _download_result                                                        *)

\* os.path.basename(url): what follows the last "/" of the url. A url is a
\* sequence of "/" tokens and of names that hold no "/".
Basename(u) == IF u = <<>> \/ u[Len(u)] = "/" THEN "" ELSE u[Len(u)]

\* file_path = os.path.join(out_dir, filename), within out_dir
FilePath(u) == Basename(u)

\* os.path.getsize(file_path) if os.path.exists(file_path) else 0
FileSize(u) == Len(fs[FilePath(u)])

\* a GET that never carries a Range header
RangeHeaderNever(off) == NoRange

\* headers = {"Range": f"bytes={offset}-"} if offset else {}
RangeHeader(off) == IF off # 0 THEN off ELSE NoRange

\* lines 137-141: the offset and the open mode for an accepted response
WriteOffset(st, off) == IF st = 200 /\ off # 0 THEN 0 ELSE off

\* the mode chosen from the offset alone: a 200 answer to a Range request is
\* appended to the bytes on disk
WriteModeAppendIfOffset(st, off) == IF off # 0 THEN "ab" ELSE "wb"

\* the file truncated on every attempt
WriteModeAlwaysTruncate(st, off) == "wb"

WriteMode(st, off) ==
    IF st = 200 /\ off # 0 THEN "wb"
    ELSE IF off # 0 THEN "ab" ELSE "wb"

\* _extract_total_size that reads Content-Length before Content-Range
ExtractTotalSizeLengthFirst(r, off) ==
    IF r.cl # NoHeader /\ r.cl # NonDigit
    THEN IF r.status = 206 THEN off + r.cl ELSE r.cl
    ELSE IF r.cr # NoHeader /\ r.cr # NonDigit THEN r.cr
         ELSE NoneSize

\* _extract_total_size(resp, offset)
ExtractTotalSize(r, off) ==
    IF r.cr # NoHeader /\ r.cr # NonDigit THEN r.cr
    ELSE IF r.cl # NoHeader /\ r.cl # NonDigit
         THEN IF r.status = 206 THEN off + r.cl ELSE r.cl
         ELSE NoneSize

\* open(file_path, mode): "wb" truncates, "ab" keeps the content
Opened(content, m) == IF m = "wb" THEN <<>> ELSE content

\* f.write(chunk) on a file opened in mode m whose handle has written pos
\* bytes: "ab" writes at the end of the file, "wb" at the handle's position,
\* which is the end of the file unless another handle has changed the file (a
\* gap reads as zero bytes)
Written(content, m, pos, chunk) ==
    IF m = "ab" \/ pos = Len(content) THEN content \o chunk
    ELSE IF pos > Len(content)
         THEN content \o [i \in 1..(pos - Len(content)) |-> Junk] \o chunk
         ELSE SubSeq(content, 1, pos) \o chunk
                 \o SubSeq(content, pos + Len(chunk) + 1, Len(content))

\* completion only against a known total
CompleteOnlyIfKnown(total, final) == total # NoneSize /\ final >= total

\* total_size is None or final_size >= total_size
Complete(total, final) == total = NoneSize \/ final >= total

\* no except clause: the transport exception leaves _download_result
OnTransportErrorPropagates ==
    /\ nSleep' = nSleep
    /\ dpc' = "raised"
    /\ outcome' = "RequestException"
    /\ fs' = fs

\* except requests.RequestException: time.sleep(polling_interval); continue
OnTransportError ==
    /\ nSleep' = nSleep + 1
    /\ dpc' = "loop"
    /\ outcome' = outcome
    /\ fs' = fs

\* lines 153-155, after the body iterator ended without an exception
AfterBody ==
    /\ IF Complete(total_size, FileSize(url))
       THEN dpc' = "returned" /\ outcome' = "path"
       ELSE dpc' = "loop" /\ outcome' = outcome
    /\ UNCHANGED <<fs, nSleep>>

\* requests.get raises a RequestException
DL_GetFail ==
    /\ dpc = "loop"
    /\ nExc + nEarly < MaxFaults
    /\ offset' = FileSize(url)
    /\ range' = RangeHeader(offset')
    /\ firstRange' = IF firstRange = Unset THEN range' ELSE firstRange
    /\ nReq' = nReq + 1
    /\ nExc' = nExc + 1
    /\ OnTransportError
    /\ UNCHANGED <<url, status, mode, total_size, resp, body, srvRange, initFile,
                   nEarly>>
    /\ UNCHANGED <<srvVars, crVars, pollVars, log>>
    /\ UNCHANGED coVars

\* every status taken as a success
AcceptedAny(st) == TRUE

\* line 134: resp.status_code in (200, 206)
Accepted(st) == st \in {200, 206}

\* lines 119-145 for a response r: status check, mode, total size, open
Attempt(r) ==
    /\ offset' = WriteOffset(r.status, FileSize(url))
    /\ range' = RangeHeader(FileSize(url))
    /\ firstRange' = IF firstRange = Unset THEN range' ELSE firstRange
    /\ nReq' = nReq + 1
    /\ status' = r.status
    /\ resp' = [cr |-> r.cr, cl |-> r.cl, len |-> Len(r.body)]
    /\ IF ~ Accepted(r.status)
       THEN /\ dpc' = "raised"
            /\ outcome' = "RuntimeError"
            /\ UNCHANGED <<fs, mode, total_size, body>>
       ELSE /\ mode' = WriteMode(r.status, FileSize(url))
            /\ total_size' = ExtractTotalSize(r, offset')
            /\ fs' = [fs EXCEPT ![FilePath(url)] = Opened(@, mode')]
            /\ body' = r.body
            /\ dpc' = "stream"
            /\ outcome' = outcome
    /\ UNCHANGED <<url, srvRange, initFile, nExc, nEarly, nSleep>>
    /\ UNCHANGED <<srvVars, crVars, pollVars, log>>
    /\ UNCHANGED coVars

\* the server answers the GET
DL_Get ==
    /\ dpc = "loop"
    /\ \E r \in Responses(RangeHeader(FileSize(url))) : Attempt(r)

\* the server rejects the GET
DL_GetRejected ==
    /\ dpc = "loop"
    /\ nExc + nEarly < MaxFaults
    /\ \E st \in RejectStatuses :
          Attempt([status |-> st, body |-> <<>>, cr |-> NoHeader, cl |-> NoHeader])

\* one chunk of iter_content is written: f.write(chunk)
DL_Chunk ==
    /\ dpc = "stream"
    /\ body # <<>>
    /\ \E k \in 1..Min(ChunkSize, Len(body)) :
          /\ fs' = [fs EXCEPT ![FilePath(url)] =
                                Written(@, mode, resp.len - Len(body), SubSeq(body, 1, k))]
          /\ body' = SubSeq(body, k + 1, Len(body))
    /\ UNCHANGED <<dpc, url, offset, range, status, mode, total_size, resp, outcome,
                   srvRange, initFile, firstRange, nReq, nExc, nEarly, nSleep>>
    /\ UNCHANGED <<srvVars, crVars, pollVars, log>>
    /\ UNCHANGED coVars

\* iter_content raises a RequestException
DL_StreamFail ==
    /\ dpc = "stream"
    /\ nExc + nEarly < MaxFaults
    /\ nExc' = nExc + 1
    /\ body' = <<>>
    /\ OnTransportError
    /\ UNCHANGED <<url, offset, range, status, mode, total_size, resp, srvRange,
                   initFile, firstRange, nReq, nEarly>>
    /\ UNCHANGED <<srvVars, crVars, pollVars, log>>
    /\ UNCHANGED coVars

\* the body was read to its end
DL_StreamEnd ==
    /\ dpc = "stream"
    /\ body = <<>>
    /\ AfterBody
    /\ UNCHANGED <<url, offset, range, status, mode, total_size, resp, body, srvRange,
                   initFile, firstRange, nReq, nExc, nEarly>>
    /\ UNCHANGED <<srvVars, crVars, pollVars, log>>
    /\ UNCHANGED coVars

\* the server closes the body early and the iterator ends without an exception
DL_EarlyClose ==
    /\ dpc = "stream"
    /\ body # <<>>
    /\ nExc + nEarly < MaxFaults
    /\ nEarly' = nEarly + 1
    /\ body' = <<>>
    /\ AfterBody
    /\ UNCHANGED <<url, offset, range, status, mode, total_size, resp, srvRange,
                   initFile, firstRange, nReq, nExc>>
    /\ UNCHANGED <<srvVars, crVars, pollVars, log>>
    /\ UNCHANGED coVars

NextDL ==
    \/ DL_GetFail
    \/ DL_Get
    \/ DL_GetRejected
    \/ DL_Chunk
    \/ DL_StreamFail
    \/ DL_StreamEnd
    \/ DL_EarlyClose

-----------------------------------------------------------------------------
(* _SimurgDownloader._wait_and_download                                    *)

\* self.download_url
DownloadUrl == <<"https://simurg.iszf.irk.ru", "/", "ufiles">>

\* str.lstrip('/')
RECURSIVE LStripSlash(_)
LStripSlash(s) == IF s # <<>> /\ s[1] = "/" THEN LStripSlash(Tail(s)) ELSE s

\* lines 80-82
ResultUrl(result_path) == DownloadUrl \o <<"/">> \o LStripSlash(result_path)

\* check_status, lines 112-117: the first record whose id == query_id
CheckStatus(queries, query_id) ==
    IF \E i \in 1..Len(queries) : queries[i].id = query_id
    THEN LET i == CHOOSE i \in 1..Len(queries) :
                     /\ queries[i].id = query_id
                     /\ \A j \in 1..(i - 1) : queries[j].id # query_id
         IN  [status |-> queries[i].status, data |-> queries[i].data]
    ELSE [status |-> PyStr("not_found"), data |-> <<>>]

\* every status but done taken as still running
InProgressLenient(st) == st # PyStr("done")

\* line 88
InProgress(st) ==
    st \in {PyStr("new"), PyStr("prepared"), PyStr("processed"), PyStr("plot")}

\* _download_result(url) is entered
StartDownload(u) ==
    /\ dpc' = "loop"
    /\ url' = u
    /\ initFile' = fs[FilePath(u)]
    /\ firstRange' = Unset
    /\ nReq' = 0 /\ nExc' = 0 /\ nEarly' = 0 /\ nSleep' = 0
    /\ outcome' = "none"
    /\ UNCHANGED <<fs, offset, range, status, mode, total_size, resp, body,
                   srvRange>>

\* the loop taking done without a result path as not ready yet: it sleeps and
\* asks again
WaitStepWaitsForPath(q) ==
    LET asked == [op |-> "status", st |-> q.status, data |-> q.data]
    IN  IF q.status = PyStr("done") /\ q.data # <<>>
        THEN /\ log' = log \o <<asked, [op |-> "download", st |-> PyNone,
                                        data |-> ResultUrl(q.data)]>>
             /\ ppc' = "download"
             /\ StartDownload(ResultUrl(q.data))
        ELSE IF q.status = PyStr("done") \/ InProgress(q.status)
             THEN /\ log' = log \o <<asked, Event("sleep")>>
                  /\ ppc' = "poll"
                  /\ UNCHANGED dlVars
             ELSE /\ log' = Append(log, asked)
                  /\ ppc' = "raised"
                  /\ UNCHANGED dlVars

\* the loop without the return at line 83: the download is started and the
\* loop goes on
WaitStepNoReturn(q) ==
    LET asked == [op |-> "status", st |-> q.status, data |-> q.data]
    IN  IF q.status = PyStr("done")
        THEN IF q.data # <<>>
             THEN /\ log' = log \o <<asked, [op |-> "download", st |-> PyNone,
                                             data |-> ResultUrl(q.data)]>>
                  /\ ppc' = "poll"
                  /\ StartDownload(ResultUrl(q.data))
             ELSE /\ log' = Append(log, asked)
                  /\ ppc' = "raised"
                  /\ UNCHANGED dlVars
        ELSE IF InProgress(q.status)
             THEN /\ log' = log \o <<asked, Event("sleep")>>
                  /\ ppc' = "poll"
                  /\ UNCHANGED dlVars
             ELSE /\ log' = Append(log, asked)
                  /\ ppc' = "raised"
                  /\ UNCHANGED dlVars

\* one turn of the loop, lines 74-92, for the record the status query returned
WaitStep(q) ==
    LET asked == [op |-> "status", st |-> q.status, data |-> q.data]
    IN  IF q.status = PyStr("done")
        THEN IF q.data # <<>>
             THEN /\ log' = log \o <<asked, [op |-> "download", st |-> PyNone,
                                             data |-> ResultUrl(q.data)]>>
                  /\ ppc' = "download"
                  /\ StartDownload(ResultUrl(q.data))
             ELSE /\ log' = Append(log, asked)
                  /\ ppc' = "raised"
                  /\ UNCHANGED dlVars
        ELSE IF InProgress(q.status)
             THEN /\ log' = log \o <<asked, Event("sleep")>>
                  /\ ppc' = "poll"
                  /\ UNCHANGED dlVars
             ELSE /\ log' = Append(log, asked)
                  /\ ppc' = "raised"
                  /\ UNCHANGED dlVars

NStatus == Cardinality({i \in 1..Len(log) : log[i].op = "status"})

\* the status query is answered with the listing
Poll_Status ==
    /\ ppc = "poll"
    /\ NStatus < MaxPolls
    /\ WaitStep(CheckStatus(jobs, qid))
    /\ UNCHANGED <<qid, srvVars, crVars>>
    /\ UNCHANGED coVars

\* the loop absorbing a failed status query: it sleeps and asks again
Poll_StatusFailRetried ==
    /\ ppc = "poll"
    /\ NStatus < MaxPolls
    /\ log' = log \o <<[op |-> "status", st |-> <<"raise", "RuntimeError">>,
                        data |-> <<>>], Event("sleep")>>
    /\ ppc' = "poll"
    /\ UNCHANGED <<qid, srvVars, crVars, dlVars>>
    /\ UNCHANGED coVars

\* check_status raises: no connection or a status other than 200
Poll_StatusFail ==
    /\ ppc = "poll"
    /\ NStatus < MaxPolls
    /\ log' = Append(log, [op |-> "status", st |-> <<"raise", "RuntimeError">>,
                           data |-> <<>>])
    /\ ppc' = "raised"
    /\ UNCHANGED <<qid, srvVars, crVars, dlVars>>
    /\ UNCHANGED coVars

\* download() that starts the transfer of a result without asking for the
\* status of the job
PursueWithoutWaiting ==
    /\ cpc = "idle" /\ nCalls = 1 /\ last.err = "none"
    /\ ppc = "idle"
    /\ ppc' = "download"
    /\ qid' = last.ret
    /\ StartDownload(ResultUrl(ResultPath(1)))
    /\ UNCHANGED <<srvVars, crVars, log>>
    /\ UNCHANGED coVars

\* download(), lines 62-68: the id that create_or_reuse_query_id returned is
\* handed to _wait_and_download
Pursue ==
    /\ cpc = "idle" /\ nCalls = 1 /\ last.err = "none"
    /\ ppc = "idle"
    /\ ppc' = "poll"
    /\ qid' = last.ret
    /\ UNCHANGED <<srvVars, crVars, log, dlVars>>
    /\ UNCHANGED coVars

\* download(), line 62: the one call of create_or_reuse_query_id
Download_Resolve ==
    /\ nCalls = 0
    /\ CR_Call

-----------------------------------------------------------------------------
(* A second _download_result call on the same out_dir                      *)

\* the bytes of the resource at the peer's result URL
PeerResource == [i \in 1..Total |-> Total + i]

NoPeer ==
    [pc |-> "idle", url |-> <<>>, offset |-> 0, mode |-> "", status |-> 0,
     total_size |-> NoneSize, len |-> 0, body |-> <<>>, gets |-> 0]

\* lines 119-145 of the peer's call, for a response r
PeerAttempt(r) ==
    LET size == FileSize(peer.url)
    IN  IF ~ Accepted(r.status)
        THEN /\ peer' = [peer EXCEPT !.pc = "raised", !.status = r.status,
                                     !.gets = @ + 1]
             /\ fs' = fs
        ELSE /\ peer' = [peer EXCEPT
                            !.pc = "stream",
                            !.status = r.status,
                            !.offset = WriteOffset(r.status, size),
                            !.mode = WriteMode(r.status, size),
                            !.total_size =
                                ExtractTotalSize(r, WriteOffset(r.status, size)),
                            !.len = Len(r.body),
                            !.body = r.body,
                            !.gets = @ + 1]
             /\ fs' = [fs EXCEPT ![FilePath(peer.url)] =
                                   Opened(@, WriteMode(r.status, size))]

\* the server answers the peer's GET
Peer_Get ==
    /\ peer.pc = "loop"
    /\ peer.gets < MaxPeerGets
    /\ \E r \in ResponsesFor(PeerResource, RangeHeader(FileSize(peer.url))) :
          PeerAttempt(r)
    /\ UNCHANGED <<dpc, url, offset, range, status, mode, total_size, resp, body,
                   outcome, srvRange, initFile, firstRange, nReq, nExc, nEarly,
                   nSleep>>
    /\ UNCHANGED <<srvVars, crVars, pollVars, log, other>>

\* the peer writes one chunk
Peer_Chunk ==
    /\ peer.pc = "stream"
    /\ peer.body # <<>>
    /\ \E k \in 1..Min(ChunkSize, Len(peer.body)) :
          /\ fs' = [fs EXCEPT ![FilePath(peer.url)] =
                                Written(@, peer.mode, peer.len - Len(peer.body),
                                        SubSeq(peer.body, 1, k))]
          /\ peer' = [peer EXCEPT !.body = SubSeq(peer.body, k + 1, Len(peer.body))]
    /\ UNCHANGED <<dpc, url, offset, range, status, mode, total_size, resp, body,
                   outcome, srvRange, initFile, firstRange, nReq, nExc, nEarly,
                   nSleep>>
    /\ UNCHANGED <<srvVars, crVars, pollVars, log, other>>

\* the peer has read its body to the end: lines 153-155
Peer_StreamEnd ==
    /\ peer.pc = "stream"
    /\ peer.body = <<>>
    /\ peer' = [peer EXCEPT !.pc = IF Complete(peer.total_size, FileSize(peer.url))
                                   THEN "returned" ELSE "loop"]
    /\ UNCHANGED <<srvVars, crVars, pollVars, log, dlVars, other>>

-----------------------------------------------------------------------------
(* A second caller of create_or_reuse_query_id with the same identity      *)

NoOther ==
    [pc |-> "idle", req |-> ReqRoti, ret |-> PyNone, posts |-> 0, job |-> 0,
     seen |-> 0, overlapped |-> FALSE]

\* the two callers' calls have run at the same time: while the second caller
\* is inside its call, the first caller is inside one, or has started one
\* since the second caller's call began
Overlap ==
    \/ other.overlapped
    \/ /\ other.pc \in {"list", "post", "relist"}
       /\ cpc # "idle" \/ nCalls # other.seen

\* the second caller calls create_or_reuse_query_id
Other_Call ==
    /\ other.pc = "idle"
    /\ other' = [other EXCEPT !.pc = "list", !.seen = nCalls,
                              !.overlapped = cpc # "idle"]
    /\ UNCHANGED <<srvVars, crVars, pollVars, log, dlVars, peer>>

\* lines 197-211 for the second caller
Other_List ==
    /\ other.pc = "list"
    /\ LET matched == Matched(jobs, other.req)
       IN  other' = IF Reuse(matched)
                    THEN [other EXCEPT !.pc = "returned",
                                       !.ret = Str(Chosen(matched).id),
                                       !.overlapped = Overlap]
                    ELSE [other EXCEPT !.pc = "post", !.overlapped = Overlap]
    /\ UNCHANGED <<srvVars, crVars, pollVars, log, dlVars, peer>>

\* create_query, lines 46-55, for the second caller
Other_Post ==
    /\ other.pc = "post"
    /\ jobs' = Append(jobs, SrvRecord(srvIdKind, srvIso, other.req, Len(jobs) + 1,
                                      PyStr("new"), <<>>))
    /\ other' = [other EXCEPT !.pc = "relist", !.posts = @ + 1,
                              !.job = Len(jobs) + 1, !.overlapped = Overlap]
    /\ UNCHANGED <<srvIdKind, srvIso, nAdv, crVars, pollVars, log, dlVars, peer>>

\* create_query, lines 57-62, and get_query_id, for the second caller
Other_Relist ==
    /\ other.pc = "relist"
    /\ other' = [other EXCEPT !.pc = "returned", !.ret = GetQueryId(jobs),
                              !.overlapped = Overlap]
    /\ UNCHANGED <<srvVars, crVars, pollVars, log, dlVars, peer>>

\* one caller, one transfer
Alone == other = NoOther /\ peer = NoPeer

-----------------------------------------------------------------------------
(* Specifications                                                          *)

NoCall ==
    [req |-> ReqRoti, ops |-> <<>>, listed |-> FALSE, listing |-> <<>>,
     jobs0 |-> <<>>]

NoEnded ==
    [req |-> ReqRoti, ret |-> PyNone, err |-> "no call", cause |-> "none",
     msg |-> "", listed |-> FALSE,
     listing |-> <<>>, jobs0 |-> <<>>, jobs1 |-> <<>>, ops |-> <<>>]

ClientIdle ==
    cpc = "idle" /\ cur = NoCall /\ last = NoEnded /\ prevRet = PyNone /\ nCalls = 0

\* no response yet
NoResp == [cr |-> NoHeader, cl |-> NoHeader, len |-> 0]

DownloadIdle ==
    /\ offset = 0 /\ range = NoRange /\ status = 0 /\ mode = ""
    /\ total_size = NoneSize /\ body = <<>> /\ outcome = "none"
    /\ resp = NoResp
    /\ firstRange = Unset /\ nReq = 0 /\ nExc = 0 /\ nEarly = 0 /\ nSleep = 0

\* what the destination may hold before a download: nothing, a part of the
\* resource, all of it, or bytes that are not the resource's
InitFiles ==
    {SubSeq(Resource, 1, n) : n \in 0..Total}
       \cup {<<Junk>>}
       \cup {Append(SubSeq(Resource, 1, n), Junk) : n \in 1..Total}

UrlA == ResultUrl(ResultPath(1))

\* _download_result(UrlA) has been called
InitDL ==
    /\ jobs = <<>> /\ srvIdKind = "str" /\ srvIso = FALSE /\ nAdv = 0
    /\ ClientIdle
    /\ ppc = "idle" /\ qid = PyNone /\ log = <<>>
    /\ dpc = "loop" /\ url = UrlA
    /\ initFile \in InitFiles
    /\ fs = [n \in FileNames |-> IF n = FilePath(UrlA) THEN initFile ELSE <<>>]
    /\ srvRange \in {"honors", "ignores"}
    /\ DownloadIdle
    /\ Alone

SpecDL == InitDL /\ [][NextDL]_vars

\* listings of up to n jobs created from the requests reqs, in the states sts
Listings(kind, iso, n, reqs, sts) ==
    UNION { { [i \in 1..k |->
                 SrvRecord(kind, iso, t[i][1], i, t[i][2],
                           IF t[i][2] = PyStr("done") /\ t[i][3]
                           THEN ResultPath(i) ELSE <<>>)] :
              t \in [1..k -> reqs \X sts \X BOOLEAN] } : k \in 0..n }

\* a SimurgClient was constructed; the identity has some jobs already, and the
\* server writes ids as JSON numbers (the call returns str(id) either way)
InitResolve ==
    /\ srvIdKind = "int"
    /\ srvIso = TRUE
    /\ jobs \in Listings(srvIdKind, srvIso, MaxInitJobs, PastRequests,
                         {PyStr("plot")})
    /\ nAdv = 0
    /\ cpc = "idle" /\ last = NoEnded /\ prevRet = PyNone /\ nCalls = 0
    /\ \E r \in Requests : cur = [NoCall EXCEPT !.req = r]
    /\ ppc = "idle" /\ qid = PyNone /\ log = <<>>
    /\ dpc = "idle" /\ url = <<>> /\ initFile = <<>>
    /\ fs = [n \in FileNames |-> <<>>]
    /\ srvRange = "honors"
    /\ DownloadIdle
    /\ Alone

NextResolve ==
    \/ CR_Call
    \/ CR_List
    \/ CR_ListFail
    \/ CR_Post
    \/ CR_PostFail
    \/ CR_Relist
    \/ SrvStep

SpecResolve == InitResolve /\ [][NextResolve]_vars

\* the same client against a server whose listing may fail to show a created
\* job or its id
NextCreate ==
    \/ NextResolve
    \/ CR_PostUnlisted
    \/ CR_PostNoId

SpecCreate == InitResolve /\ [][NextCreate]_vars

\* listings of up to n jobs created from req, each in a state of sts and with
\* an early or a late 'created' stamp, or none
StampedListings(kind, iso, n, req, sts) ==
    UNION { { [i \in 1..k |->
                 [SrvRecord(kind, iso, req, i, t[i][1], <<>>)
                     EXCEPT !.created = t[i][2]]] :
              t \in [1..k -> sts \X {NoCreated, Created(<<1>>), Created(<<2>>)}] } :
            k \in 0..n }

\* a SimurgClient was constructed; the identity has jobs for the same request,
\* listed in any order of creation
InitTieBreak ==
    /\ srvIdKind = "int"
    /\ srvIso = TRUE
    /\ jobs \in StampedListings(srvIdKind, srvIso, MaxInitJobs, ReqRoti,
                                {PyStr("plot"), PyStr("done")})
    /\ nAdv = 0
    /\ cpc = "idle" /\ last = NoEnded /\ prevRet = PyNone /\ nCalls = 0
    /\ cur = NoCall
    /\ ppc = "idle" /\ qid = PyNone /\ log = <<>>
    /\ dpc = "idle" /\ url = <<>> /\ initFile = <<>>
    /\ fs = [n \in FileNames |-> <<>>]
    /\ srvRange = "honors"
    /\ DownloadIdle
    /\ Alone

SpecTieBreak == InitTieBreak /\ [][NextResolve]_vars

\* a SimurgClient was constructed; the identity has jobs whose coordinates are
\* those of the request, others, or fewer
InitMatch ==
    /\ srvIdKind = "int"
    /\ srvIso = TRUE
    /\ jobs \in Listings(srvIdKind, srvIso, MaxInitJobs,
                         {ReqRoti, ReqRotiNorth, ReqRotiNoLon}, {PyStr("plot")})
    /\ nAdv = 0
    /\ cpc = "idle" /\ last = NoEnded /\ prevRet = PyNone /\ nCalls = 0
    /\ \E r \in {ReqRoti, ReqRotiPlots} : cur = [NoCall EXCEPT !.req = r]
    /\ ppc = "idle" /\ qid = PyNone /\ log = <<>>
    /\ dpc = "idle" /\ url = <<>> /\ initFile = <<>>
    /\ fs = [n \in FileNames |-> <<>>]
    /\ srvRange = "honors"
    /\ DownloadIdle
    /\ Alone

SpecMatch == InitMatch /\ [][NextResolve]_vars

\* one call of create_or_reuse_query_id against a server at rest
NextOneCall ==
    \/ Download_Resolve
    \/ CR_List
    \/ CR_ListFail
    \/ CR_Post
    \/ CR_PostFail
    \/ CR_Relist

\* listings of up to n jobs created from req and listed under the labels
TypedListings(kind, iso, n, req, labels) ==
    UNION { { [i \in 1..k |->
                 [SrvRecord(kind, iso, req, i, PyStr("plot"), <<>>)
                     EXCEPT !.type = t[i]]] :
              t \in [1..k -> labels] } : k \in 0..n }

\* a SimurgClient was constructed; the identity has jobs that differ in their
\* type label only
InitType ==
    /\ srvIdKind = "int"
    /\ srvIso = TRUE
    /\ jobs \in TypedListings(srvIdKind, srvIso, MaxInitJobs, ReqRoti,
                              {"map", "MAP", "keogram", NoType})
    /\ nAdv = 0
    /\ cpc = "idle" /\ last = NoEnded /\ prevRet = PyNone /\ nCalls = 0
    /\ \E r \in {ReqRoti, ReqRotiAsMap} : cur = [NoCall EXCEPT !.req = r]
    /\ ppc = "idle" /\ qid = PyNone /\ log = <<>>
    /\ dpc = "idle" /\ url = <<>> /\ initFile = <<>>
    /\ fs = [n \in FileNames |-> <<>>]
    /\ srvRange = "honors"
    /\ DownloadIdle
    /\ Alone

SpecType == InitType /\ [][NextOneCall]_vars

\* the ways a server may write the minute ts: as the client does, in ISO form
\* with seconds, with seconds and a fraction, with blanks around it
Writings(ts) ==
    { ts,
      SrvEcho(TRUE, ts),
      ts \o <<":", "3", "0", ".", "5">>,
      <<" ">> \o ts \o <<" ">> }

\* listings of up to n jobs created from req, with begin and end as written
\* in begins and ends
TimedListings(kind, n, req, begins, ends) ==
    UNION { { [i \in 1..k |->
                 [SrvRecord(kind, FALSE, req, i, PyStr("plot"), <<>>)
                     EXCEPT !.begin = t[i][1], !.end = t[i][2]]] :
              t \in [1..k -> begins \X ends] } : k \in 0..n }

\* a SimurgClient was constructed; the identity has jobs for the request's
\* minutes in several writings, and jobs for the minute after
InitTime ==
    /\ srvIdKind = "int"
    /\ srvIso = TRUE
    /\ jobs \in TimedListings(srvIdKind, MaxInitJobs, ReqRoti,
                              Writings(TsDay1) \cup {SrvEcho(TRUE, TsDay1Late)},
                              {TsDay2, SrvEcho(TRUE, TsDay2), TsDay1Late})
    /\ nAdv = 0
    /\ cpc = "idle" /\ last = NoEnded /\ prevRet = PyNone /\ nCalls = 0
    /\ \E r \in {ReqRoti, ReqRotiLate} : cur = [NoCall EXCEPT !.req = r]
    /\ ppc = "idle" /\ qid = PyNone /\ log = <<>>
    /\ dpc = "idle" /\ url = <<>> /\ initFile = <<>>
    /\ fs = [n \in FileNames |-> <<>>]
    /\ srvRange = "honors"
    /\ DownloadIdle
    /\ Alone

SpecTime == InitTime /\ [][NextOneCall]_vars

\* result URLs of another job: one with the file name of UrlA under another
\* directory, one with another file name
PeerUrls == {ResultUrl(<<"res2", "/", FileOf(1)>>), ResultUrl(ResultPath(2))}

\* _download_result has been called twice, for UrlA and for the URL of
\* another job, by two downloaders with the same out_dir, which is empty
InitPeers ==
    /\ jobs = <<>> /\ srvIdKind = "str" /\ srvIso = FALSE /\ nAdv = 0
    /\ ClientIdle
    /\ ppc = "idle" /\ qid = PyNone /\ log = <<>>
    /\ dpc = "loop" /\ url = UrlA
    /\ initFile = <<>>
    /\ fs = [n \in FileNames |-> <<>>]
    /\ srvRange \in {"honors", "ignores"}
    /\ DownloadIdle
    /\ other = NoOther
    /\ \E u \in PeerUrls : peer = [NoPeer EXCEPT !.pc = "loop", !.url = u]

\* the steps of the two calls in any order, with no fault of the transport
NextPeers ==
    \/ DL_Get
    \/ DL_Chunk
    \/ DL_StreamEnd
    \/ Peer_Get
    \/ Peer_Chunk
    \/ Peer_StreamEnd

SpecPeers == InitPeers /\ [][NextPeers]_vars

\* two callers hold clients of one identity, which has no job yet; the second
\* caller asks for the request of the first or for another one
InitRace ==
    /\ srvIdKind = "int" /\ srvIso = TRUE
    /\ jobs = <<>> /\ nAdv = 0
    /\ ClientIdle
    /\ ppc = "idle" /\ qid = PyNone /\ log = <<>>
    /\ dpc = "idle" /\ url = <<>> /\ initFile = <<>>
    /\ fs = [n \in FileNames |-> <<>>]
    /\ srvRange = "honors"
    /\ DownloadIdle
    /\ \E r \in {ReqRoti, ReqTec} : other = [NoOther EXCEPT !.req = r]
    /\ peer = NoPeer

\* the steps of the two callers in any order
NextRace ==
    \/ CR_Call
    \/ CR_List
    \/ CR_ListFail
    \/ CR_Post
    \/ CR_PostFail
    \/ CR_Relist
    \/ Other_Call
    \/ Other_List
    \/ Other_Post
    \/ Other_Relist

SpecRace == InitRace /\ [][NextRace]_vars

\* _wait_and_download(qid) has been called
InitPoll ==
    /\ srvIdKind \in {"str", "int"}
    /\ srvIso = TRUE
    /\ jobs \in Listings(srvIdKind, srvIso, MaxInitJobs, {ReqRoti},
                         {PyStr("new"), PyStr("plot"), PyStr("error"), PyNone})
    /\ jobs # <<>>
    /\ nAdv = 0
    /\ ClientIdle
    /\ ppc = "poll" /\ qid = PyStr("1") /\ log = <<>>
    /\ dpc = "idle" /\ url = <<>> /\ initFile = <<>>
    /\ fs = [n \in FileNames |-> <<>>]
    /\ srvRange \in {"honors", "ignores"}
    /\ DownloadIdle
    /\ Alone

NextPoll ==
    \/ Poll_Status
    \/ Poll_StatusFail
    \/ SrvStep
    \/ SrvFailure
    \/ NextDL

SpecPoll == InitPoll /\ [][NextPoll]_vars

\* download() has been called on a downloader of a new client
InitPursuit ==
    /\ srvIdKind \in {"str", "int"}
    /\ srvIso = TRUE
    /\ jobs \in Listings(srvIdKind, srvIso, MaxInitJobs, {ReqRoti}, {PyStr("plot")})
    /\ nAdv = 0
    /\ cpc = "idle" /\ last = NoEnded /\ prevRet = PyNone /\ nCalls = 0
    /\ \E r \in {ReqRoti, ReqTec} : cur = [NoCall EXCEPT !.req = r]
    /\ ppc = "idle" /\ qid = PyNone /\ log = <<>>
    /\ dpc = "idle" /\ url = <<>> /\ initFile = <<>>
    /\ fs = [n \in FileNames |-> <<>>]
    /\ srvRange = "honors"
    /\ DownloadIdle
    /\ Alone

NextPursuit ==
    \/ Download_Resolve
    \/ CR_List
    \/ CR_ListFail
    \/ CR_Post
    \/ CR_PostFail
    \/ CR_Relist
    \/ Pursue
    \/ Poll_Status
    \/ Poll_StatusFail
    \/ SrvStep
    \/ SrvCompletion
    \/ NextDL

SpecPursuit == InitPursuit /\ [][NextPursuit]_vars

-----------------------------------------------------------------------------
(* Properties                                                              *)

Dest == fs[FilePath(url)]

\* the call that ended last found a listing, and a record of it matches
LastMatched ==
    \E j \in 1..Len(last.listing) :
       PayloadMatch(last.listing[j], last.req.method, last.req)

\* C1 as stated: two calls made one after the other with the same request
\* return the same job id, whatever the listing did in between.
C1_SameIdAlways ==
    (cpc = "idle" /\ nCalls >= 2 /\ last.err = "none" /\ prevRet # PyNone)
       => last.ret = prevRet

\* call b listed the jobs call a left, and its matching records that are done,
\* the one call a returned aside, were done already in the listing call a
\* fetched
NoOtherTurnedDone(a, b) ==
    /\ Len(b.listing) = Len(a.jobs1)
    /\ \A j \in 1..Len(b.listing) :
          (/\ PayloadMatch(b.listing[j], b.req.method, b.req)
           /\ b.listing[j].status = PyStr("done")
           /\ Str(b.listing[j].id) # a.ret)
             => /\ j <= Len(a.listing)
                /\ a.listing[j].status = PyStr("done")

\* C1, amended: two calls made one after the other with the same request return
\* the same job id, provided no matching record other than the one the first
\* call returned has become done between the two listings.
C1_SameIdUnlessOtherDone ==
    [][ (/\ cpc # "idle" /\ cpc' = "idle"
         /\ last.err = "none" /\ last'.err = "none"
         /\ last'.req = last.req
         /\ NoOtherTurnedDone(last, last'))
           => last'.ret = last.ret ]_vars

\* two calls returned the same id although the listing held several matching
\* records and a status changed
C1_Witness ==
    /\ cpc = "idle" /\ nCalls >= 2 /\ last.err = "none"
    /\ prevRet = last.ret
    /\ nAdv >= 1
    /\ Len(Matched(last.listing, last.req)) >= 2

\* C2: a call whose listing holds a matching record issues one check request
\* and no creation POST, returns, and leaves the set of jobs of the identity as
\* it was.
C2_ReuseCreatesNothing ==
    LastMatched =>
       /\ last.ops = <<"check">>
       /\ last.err = "none"
       /\ last.jobs1 = last.jobs0

C2_Witness ==
    /\ LastMatched
    /\ last.ops = <<"check">>
    /\ Len(last.jobs1) >= 1

\* the request differs from the record in a compared field: the type (the
\* alias map/create_map aside), the begin or end minute, or a key the request
\* sends under coordinates or options
BlockDiffers(p, sv) ==
    /\ p.kind = "dict"
    /\ \/ sv.kind # "dict"
       \/ \E k \in DictKeys(p.d) : DictGet(sv.d, k) # DictGet(p.d, k)

Differs(q, req) ==
    \/ /\ Lower(q.type) # Lower(req.method)
       /\ ~ (Lower(q.type) = "map" /\ Lower(req.method) = "create_map")
    \/ NormDt(q.begin) # NormDt(req.begin)
    \/ NormDt(q.end) # NormDt(req.end)
    \/ BlockDiffers(req.coordinates, q.coordinates)
    \/ BlockDiffers(req.options, q.options)

LastAllDiffer ==
    /\ last.listed
    /\ \A j \in 1..Len(last.listing) : Differs(last.listing[j], last.req)

\* C3: a call whose request differs from every listed record in a compared
\* field issues the creation POST and, when it returns, returns the id of the
\* job just created, which is the id of no record of that listing.
C3_NoFalseReuse ==
    LastAllDiffer =>
       /\ Len(last.ops) >= 2
       /\ last.ops[2] = "post"
       /\ last.err = "none" =>
             /\ Len(last.jobs1) = Len(last.listing) + 1
             /\ last.ret = Str(last.jobs1[Len(last.jobs1)])
             /\ \A j \in 1..Len(last.listing) : last.ret # Str(last.listing[j].id)

C3_Witness ==
    /\ LastAllDiffer
    /\ last.listing # <<>>
    /\ last.err = "none"
    /\ \E j \in 1..Len(last.listing) :
          last.req.coordinates.kind = "dict" /\ last.listing[j].coordinates.kind = "none"

\* a part of the resource is on disk and the server honors Range and sends
\* every body to its end
ResumeCase ==
    /\ srvRange = "honors"
    /\ nEarly = 0
    /\ 0 < Len(initFile) /\ Len(initFile) < Total
    /\ IsPrefix(initFile, Resource)

\* C4: with a prefix of N bytes on disk, 0 < N < total, and a server that
\* honors Range, the first GET carries Range: bytes=N-, the bodies are appended
\* to the bytes on disk, and the call returns with the resource's bytes.
C4_ResumeCorrect ==
    (ResumeCase /\ dpc # "idle") =>
       /\ firstRange \in {Unset, Len(initFile)}
       /\ IsPrefix(initFile, Dest)
       /\ IsPrefix(Dest, Resource)
       /\ dpc = "stream" => status = 206 /\ mode = "ab"
       /\ dpc = "returned" => Dest = Resource

C4_Witness ==
    /\ ResumeCase
    /\ dpc = "returned"
    /\ firstRange = Len(initFile)
    /\ nReq = 1

\* bytes are on disk and the server answers every GET with 200 and the whole
\* body
RewriteCase ==
    /\ srvRange = "ignores"
    /\ nEarly = 0
    /\ Len(initFile) > 0

\* C5: with N > 0 bytes on disk and a server that ignores Range, the file is
\* opened in truncate mode and rewritten from byte 0; the call returns with
\* exactly the resource's bytes, never N + total.
C5_RewriteFromZero ==
    (RewriteCase /\ dpc # "idle") =>
       /\ dpc = "stream" => status = 200 /\ mode = "wb" /\ IsPrefix(Dest, Resource)
       /\ dpc = "returned" => Dest = Resource

C5_Witness ==
    /\ RewriteCase
    /\ Len(initFile) < Total
    /\ dpc = "returned"
    /\ range = Len(initFile)

\* C6: whenever _download_result returns the path, the file holds the
\* resource, whatever the server did and whatever the destination held.
C6_NoPartialSuccess == dpc = "returned" => Dest = Resource

\* the status query logged at place i returned done and a result path
DoneAt(i) ==
    /\ log[i].op = "status"
    /\ log[i].st = PyStr("done")
    /\ log[i].data # <<>>

\* C7: a status query that returns new, prepared, processed or plot is
\* followed by one sleep of the loop and then by the next status query; the
\* first one that returns done with a result path is followed by nothing but
\* the start of the download from the URL built from that path.
C7_PollEndsOnDone ==
    /\ \A i \in 1..Len(log) :
          DoneAt(i) =>
             /\ Len(log) = i + 1
             /\ log[i + 1] = [op |-> "download", st |-> PyNone,
                              data |-> DownloadUrl \o <<"/">> \o LStripSlash(log[i].data)]
             /\ url = log[i + 1].data
             /\ ppc = "download" /\ dpc # "idle"
    /\ \A i \in 1..Len(log) :
          (/\ log[i].op = "status"
           /\ log[i].st \in {PyStr("new"), PyStr("prepared"), PyStr("processed"),
                             PyStr("plot")})
             => /\ i < Len(log)
                /\ log[i + 1].op = "sleep"
                /\ i + 2 <= Len(log) => log[i + 2].op = "status"
                /\ i + 1 = Len(log) => ppc = "poll"
    /\ \A i \in 1..Len(log) : log[i].op = "download" => i > 1 /\ DoneAt(i - 1)
    /\ dpc # "idle" => \E i \in 1..Len(log) : DoneAt(i)

C7_Witness ==
    /\ Len(log) >= 4
    /\ DoneAt(Len(log) - 1)
    /\ log[1].st = PyStr("plot")
    /\ dpc = "returned"

\* C8: a status query that returns a status outside done, new, prepared,
\* processed and plot is the last operation of the call: the call raises, with
\* no sleep, no further query and no download.
C8_UnknownStatusFatal ==
    \A i \in 1..Len(log) :
       (/\ log[i].op = "status"
        /\ log[i].st \notin {PyStr("done"), PyStr("new"), PyStr("prepared"),
                             PyStr("processed"), PyStr("plot")})
          => /\ i = Len(log)
             /\ ppc = "raised"
             /\ dpc = "idle"

C8_Witness ==
    /\ Len(log) >= 3
    /\ log[Len(log)].op = "status"
    /\ log[Len(log)].st = PyStr("error")
    /\ ppc = "raised"

\* C9: a transport exception of the GET or of the body stream never leaves
\* _download_result: each one is followed by one sleep and a new turn of the
\* loop, the file keeps what was written, and the next GET asks for the bytes
\* from the size of the file as it stands.
C9_TransientAbsorbed ==
    /\ [](/\ outcome # "RequestException"
          /\ nSleep = nExc
          /\ dpc = "raised" => status \notin {200, 206})
    /\ [][ /\ nExc' > nExc => (dpc' = "loop" /\ fs' = fs /\ nSleep' = nSleep + 1)
           /\ nReq' > nReq =>
                 range' = (IF Len(Dest) > 0 THEN Len(Dest) ELSE NoRange) ]_vars

C9_Witness ==
    /\ initFile = <<>>
    /\ nExc >= 1
    /\ nReq = 2
    /\ dpc = "stream"
    /\ range > 0
    /\ status = 206
    /\ Len(Dest) = range

\* C10: the size of the destination file never decreases, except in an
\* attempt that is answered with 200 after a Range request (local offset > 0).
C10_MonotoneProgress ==
    [][ \A n \in FileNames :
           Len(fs'[n]) < Len(fs[n]) =>
              /\ nReq' = nReq + 1
              /\ status' = 200
              /\ range' # NoRange /\ range' = Len(fs[n]) ]_vars

C10_Witness ==
    /\ nReq >= 2
    /\ status = 200
    /\ range > 0
    /\ dpc = "stream"
    /\ Dest = <<>>
    /\ Len(initFile) > 0
\* C11: a status query that returns done with no result path is the last
\* operation of the call: the call raises, and no sleep, no further query and
\* no download follow it; the url of a download is built from the path of a
\* done record, which is not empty.
C11_DoneWithoutPathFatal ==
    /\ \A i \in 1..Len(log) :
          (log[i].op = "status" /\ log[i].st = PyStr("done") /\ log[i].data = <<>>)
             => /\ i = Len(log)
                /\ ppc = "raised"
                /\ dpc = "idle" /\ url = <<>> /\ nReq = 0
    /\ dpc # "idle" =>
          \E i \in 1..Len(log) :
             /\ log[i].op = "status" /\ log[i].st = PyStr("done")
             /\ log[i].data # <<>>
             /\ url = DownloadUrl \o <<"/">> \o LStripSlash(log[i].data)

C11_Witness ==
    /\ Len(log) >= 3
    /\ log[Len(log)] = [op |-> "status", st |-> PyStr("done"), data |-> <<>>]
    /\ log[1].st = PyStr("plot")
    /\ ppc = "raised"
\* sleeps of the polling loop so far
NSleeps == Cardinality({i \in 1..Len(log) : log[i].op = "sleep"})

\* C12: the polling call does not wait without bound: for a deadline of
\* MaxPolls - 1 polling intervals, once that many sleeps have passed with the
\* job still in progress the call has ended (with a timeout error) and is not
\* about to ask again.
C12_EndsByDeadline == NSleeps >= MaxPolls - 1 => ppc # "poll"
\* C13: when the listing made after an accepted creation POST is empty or its
\* last entry has no id, the call raises the error of line 59 and returns no
\* id.
C13_NoIdIsFatal ==
    (/\ Len(last.ops) = 3
     /\ \/ last.jobs1 = <<>>
        \/ last.jobs1[Len(last.jobs1)] = PyNone)
       => last.err = "RuntimeError" /\ last.ret = PyNone
C15_RejectionIsFinal ==
    [][ /\ (nReq' > nReq /\ nExc' = nExc /\ status' \notin {200, 206}) =>
              /\ dpc' = "raised" /\ outcome' = "RuntimeError"
              /\ fs' = fs
              /\ nSleep' = nSleep
        /\ dpc = "raised" => (nReq' = nReq /\ nSleep' = nSleep /\ fs' = fs) ]_vars

\* the whole file is on disk and the server answers the Range request with 416
C15_Witness ==
    /\ dpc = "raised"
    /\ status = 416
    /\ nReq = 1 /\ nSleep = 0
    /\ Dest = initFile /\ initFile = Resource
\* C16: in one download() call the listing, the creation POST if any and its
\* listing come before the first status query, with at most one POST; the
\* status queries come before the first artifact GET, which follows a status
\* query that returned done with a result path; nothing of an earlier stage
\* happens once a later stage has begun.
C16_PursuitOrder ==
    /\ [](/\ cur.ops \in {<<>>, <<"check">>, <<"check", "post">>}
          /\ ppc # "idle" =>
                /\ cpc = "idle" /\ last.err = "none"
                /\ last.ops \in {<<"check">>, <<"check", "post", "check">>}
          /\ log # <<>> => (ppc # "idle" /\ log[1].op = "status")
          /\ dpc # "idle" =>
                /\ ppc = "download"
                /\ Len(log) >= 2
                /\ DoneAt(Len(log) - 1) /\ log[Len(log)].op = "download"
          /\ nReq >= 1 => dpc # "idle")
    /\ [][ /\ ppc # "idle" => (cur' = cur /\ last' = last /\ Len(jobs') = Len(jobs))
           /\ dpc # "idle" => log' = log ]_vars

\* a job was created, asked about twice and its result fetched
C16_Witness ==
    /\ last.ops = <<"check", "post", "check">>
    /\ NStatus >= 2
    /\ nReq >= 2
    /\ dpc = "returned"
\* C17: a call that created a job issued the POST and then one listing, and
\* returns the id of the last entry of that listing; with no other writer and
\* a server that appends, that entry is one more than the jobs before the call
\* and it matches the request.
C17_NewIdByRelisting ==
    (last.err = "none" /\ Len(last.ops) >= 2) =>
       LET n == Len(last.jobs1)
       IN  /\ last.ops = <<"check", "post", "check">>
           /\ n = Len(last.jobs0) + 1
           /\ last.ret = Str(last.jobs1[n])
           /\ Str(jobs[n].id) = last.ret
           /\ PayloadMatch(jobs[n], last.req.method, last.req)
           /\ \A j \in 1..(n - 1) : Str(jobs[j].id) # last.ret

C17_Witness ==
    /\ last.err = "none"
    /\ last.ops = <<"check", "post", "check">>
    /\ Len(last.jobs1) >= 2
    /\ last.req = ReqTec

\* C18: the id that create_or_reuse_query_id returned is found by check_status
\* in the listing of the identity, whichever way the server writes ids.
C18_ResolvedIdIsFound ==
    ppc # "idle" => CheckStatus(jobs, qid).status # PyStr("not_found")
\* record j of the listing of the last call matches its request
LastMatch(j) == PayloadMatch(last.listing[j], last.req.method, last.req)

\* the 'created' string of a record, the empty string when it has none
KeyOf(q) == IF q.created.kind = "none" THEN <<>> ELSE q.created.s

\* C19: with matching records in the listing the call returns, creating
\* nothing: the id of the first matching record that is done if there is one,
\* else the id of a matching record whose 'created' string no other matching
\* record exceeds.
C19_TieBreak ==
    LastMatched =>
       /\ last.err = "none"
       /\ last.ops = <<"check">>
       /\ last.jobs1 = last.jobs0
       /\ \E i \in 1..Len(last.listing) :
             /\ LastMatch(i)
             /\ last.ret = Str(last.listing[i].id)
             /\ IF \E j \in 1..Len(last.listing) :
                      LastMatch(j) /\ last.listing[j].status = PyStr("done")
                THEN /\ last.listing[i].status = PyStr("done")
                     /\ \A j \in 1..(i - 1) :
                           ~ (LastMatch(j) /\ last.listing[j].status = PyStr("done"))
                ELSE \A j \in 1..Len(last.listing) :
                        LastMatch(j) =>
                           ~ LexLess(KeyOf(last.listing[i]), KeyOf(last.listing[j]))

\* of two matching records the older is done and the newer, listed first, is
\* not: the older is returned
C19_Witness ==
    /\ last.err = "none"
    /\ Len(last.listing) >= 2
    /\ LastMatch(1) /\ LastMatch(2)
    /\ last.listing[1].status = PyStr("plot")
    /\ last.listing[2].status = PyStr("done")
    /\ LexLess(KeyOf(last.listing[2]), KeyOf(last.listing[1]))
    /\ last.ret = Str(last.listing[2].id)
\* every key the request sends in a block is in the record's block with the
\* same value (the record may hold more)
BlockContained(p, sv) ==
    p.kind = "dict" =>
       /\ sv.kind = "dict"
       /\ \A pair \in p.d : pair \in sv.d

\* the record is of the request's type and time range and holds what the
\* request sends under coordinates and options
Contained(q, req) ==
    /\ q.type = SrvLabel(req.method)
    /\ NormDt(q.begin) = NormDt(req.begin)
    /\ NormDt(q.end) = NormDt(req.end)
    /\ BlockContained(req.coordinates, q.coordinates)
    /\ BlockContained(req.options, q.options)

\* C20: a record that holds every key the request sends under coordinates and
\* options with the same value matches, whatever else the record holds there
\* and whatever the request sends in other fields such as flags; a record in
\* which a key the request sends under coordinates or options is missing or
\* has another value does not match.
C20_AsymmetricContainment ==
    last.listed =>
       \A j \in 1..Len(last.listing) :
          LET q == last.listing[j]
          IN  /\ Contained(q, last.req) => LastMatch(j)
              /\ (\/ BlockDiffers(last.req.coordinates, q.coordinates)
                  \/ BlockDiffers(last.req.options, q.options)) => ~ LastMatch(j)
              /\ \A f \in {NoDict, FlagsOff, ReqRotiPlots.flags} :
                    PayloadMatch(q, last.req.method, [last.req EXCEPT !.flags = f])
                       = LastMatch(j)
              /\ LastMatch(j) => last.ops = <<"check">>

\* the request asks for plots; the first record lacks the longitudes and is
\* passed over, the second holds the request's coordinates and a key more and
\* is returned
C20_Witness ==
    /\ last.err = "none"
    /\ last.req = ReqRotiPlots
    /\ Len(last.listing) >= 2
    /\ DictGet(last.listing[1].coordinates.d, "minlon") = PyNone
    /\ ~ LastMatch(1)
    /\ DictKeys(last.req.coordinates.d) # DictKeys(last.listing[2].coordinates.d)
    /\ LastMatch(2)
    /\ last.ret = Str(last.listing[2].id)
\* C21 as stated: a record is matched only if its type label equals the
\* request's method, or the label is "map" and the method "create_map".
C21_EqualOrAlias ==
    last.listed =>
       \A j \in 1..Len(last.listing) :
          LastMatch(j) =>
             \/ last.listing[j].type = last.req.method
             \/ last.listing[j].type = "map" /\ last.req.method = "create_map"

\* two labels that differ at most in the case of their letters
SameLabel(a, b) ==
    \/ a = b
    \/ {a, b} \subseteq {"map", "MAP"}
    \/ {a, b} \subseteq {"create_map", "Create_Map"}

\* the label and the method agree: equal up to case, or "map" for "create_map"
LabelFits(label, method) ==
    IF label = NoType THEN method = ""
    ELSE \/ SameLabel(label, method)
         \/ SameLabel(label, "map") /\ SameLabel(method, "create_map")

\* C21, amended: of records with the request's time range and parameters, those
\* are matched whose type label equals the request's method when both are
\* written in lower case, or is "map" in any case for the method "create_map";
\* every other record is rejected, and a record without a type counts as one
\* with the empty label.
C21_EqualUpToCaseOrAlias ==
    last.listed =>
       \A j \in 1..Len(last.listing) :
          LastMatch(j) <=> LabelFits(last.listing[j].type, last.req.method)

\* a record listed as "MAP" is reused for create_map, records without a type
\* or of another type before it are passed over
C21_Witness ==
    /\ last.err = "none"
    /\ last.req.method = "create_map"
    /\ Len(last.listing) >= 2
    /\ last.listing[1].type \in {NoType, "keogram"}
    /\ last.listing[2].type = "MAP"
    /\ last.ret = Str(last.listing[2].id)
\* the date and the hour and minute that a timestamp names: ten characters
\* from its first non-blank one, and five after the separator
MinuteOf(s) ==
    LET first == CHOOSE i \in 1..Len(s) : s[i] # " " /\ \A j \in 1..(i - 1) : s[j] = " "
    IN  <<SubSeq(s, first, first + 9), SubSeq(s, first + 11, first + 15)>>

\* C22: of records with the request's type and parameters, those are matched
\* whose begin and end name the minutes of the request's begin and end,
\* whether written with a blank or a T, with or without seconds and fractions
\* or blanks around; a record whose begin or end names another minute is not.
C22_MinutePrecision ==
    last.listed =>
       \A j \in 1..Len(last.listing) :
          LastMatch(j) <=>
             /\ MinuteOf(last.listing[j].begin) = MinuteOf(last.req.begin)
             /\ MinuteOf(last.listing[j].end) = MinuteOf(last.req.end)

\* the first record begins a minute late and is passed over; the second is
\* written in ISO form with seconds and is returned
C22_Witness ==
    /\ last.err = "none"
    /\ last.req = ReqRoti
    /\ Len(last.listing) >= 2
    /\ last.listing[1].begin = SrvEcho(TRUE, TsDay1Late)
    /\ last.listing[1].end = SrvEcho(TRUE, TsDay2)
    /\ last.listing[2].begin = SrvEcho(TRUE, TsDay1)
    /\ last.listing[2].end = SrvEcho(TRUE, TsDay2)
    /\ last.ret = Str(last.listing[2].id)
\* C23: a status query that fails (no connection, or an answer other than
\* 200) is the last operation of the polling call: the call raises with no
\* sleep, no further status query and no download after it, and no request
\* for the result has been sent.
C23_StatusFailureNotRetried ==
    \A i \in 1..Len(log) :
       (log[i].op = "status" /\ log[i].st = <<"raise", "RuntimeError">>)
          => /\ i = Len(log)
             /\ ppc = "raised"
             /\ dpc = "idle"
             /\ nReq = 0 /\ nSleep = 0

\* the job was polled twice in progress, and the third status query failed
C23_Witness ==
    /\ Len(log) = 5
    /\ log[1].op = "status" /\ log[1].st = PyStr("plot")
    /\ log[2].op = "sleep"
    /\ log[4].op = "sleep"
    /\ log[5].st = <<"raise", "RuntimeError">>
    /\ ppc = "raised"
\* the local offset that the last GET sent in its Range header
SentOffset == IF range = NoRange THEN 0 ELSE range

\* C24: while the body of an accepted response is read, the expected total is
\* the TOTAL of its Content-Range when that is a number, whatever its
\* Content-Length says; otherwise, when its Content-Length L is a number, the
\* offset sent in the request plus L for a 206 and L for a 200; otherwise it
\* is unknown.
C24_ExpectedTotal ==
    dpc = "stream" =>
       total_size =
          IF resp.cr >= 0 THEN resp.cr
          ELSE IF resp.cl >= 0
               THEN IF status = 206 THEN SentOffset + resp.cl ELSE resp.cl
               ELSE NoneSize

\* a 206 for one byte from offset 1 whose Content-Range names the whole
\* resource: the total is the one of Content-Range, not offset + length
C24_Witness ==
    /\ dpc = "stream"
    /\ status = 206
    /\ range = 1
    /\ resp.cr = Total /\ resp.cl = 1
    /\ total_size = Total
    /\ SentOffset + resp.cl < Total
\* C25: when the body of an accepted response has been read to its end with no
\* exception, the call returns the path if and only if the expected total is
\* unknown or the size on disk is at least the expected total; otherwise it
\* goes back to the head of the loop without sleeping and without raising,
\* and its next GET carries the new size in its Range header.
C25_CompletionPredicate ==
    [][ /\ (dpc = "stream" /\ dpc' # "stream" /\ nExc' = nExc) =>
              /\ dpc' = "returned" <=>
                    (total_size = NoneSize \/ Len(Dest') >= total_size)
              /\ dpc' = "returned" => outcome' = "path"
              /\ dpc' # "returned" => (dpc' = "loop" /\ outcome' = "none")
              /\ nSleep' = nSleep
              /\ fs' = fs
        /\ (dpc = "loop" /\ nReq' > nReq) =>
              range' = (IF Len(Dest) > 0 THEN Len(Dest) ELSE NoRange) ]_vars

\* a body was read to its end and left the file short of the expected total:
\* the loop goes on to a second GET, which asks for the rest
C25_Witness ==
    /\ nExc = 0 /\ nSleep = 0
    /\ nReq = 2
    /\ dpc = "stream"
    /\ status = 206
    /\ range = Len(Dest)
    /\ 0 < range /\ range < Total
    /\ initFile = <<>>
\* C26: a call that started with no destination file does not end in an error
\* unless the server rejects the GET with a permanent status: transport
\* exceptions are absorbed and the call goes on until it returns the path.
C26_NoErrorFromRetries ==
    (dpc = "raised" /\ initFile = <<>>) => status \in RejectStatuses

\* C27: a call that finds the whole resource in the destination file does not
\* end in an error unless the server rejects the GET with a permanent status:
\* it returns the path.
C27_RefetchReturnsPath ==
    (initFile = Resource /\ dpc = "raised") => status \in RejectStatuses
\* C28: two downloads of distinct result URLs into one out_dir, with their
\* steps interleaved and no fault, do not affect each other: once both have
\* returned, the destination file of each holds its own resource, as it does
\* when the call runs alone.
C28_PeersIndependent ==
    (url # peer.url /\ dpc = "returned" /\ peer.pc = "returned") =>
       /\ Dest = Resource
       /\ fs[FilePath(peer.url)] = PeerResource
\* C29: a call that created a job returns the id of the last entry of the
\* listing it made after its POST, whoever created that entry: when the entry
\* does not match the call's request, it is the job that the other caller, with
\* another request, created after the call's own job and before the call's
\* re-listing.
C29_ReturnsLastListed ==
    (last.err = "none" /\ Len(last.ops) = 3) =>
       LET k == Len(last.jobs1)
       IN  /\ k >= 1
           /\ last.ret = Str(last.jobs1[k])
           /\ ~ PayloadMatch(jobs[k], last.req.method, last.req) =>
                 /\ other.job = k
                 /\ other.req # last.req
                 /\ \E j \in 1..(k - 1) :
                       PayloadMatch(jobs[j], last.req.method, last.req)

\* the race: the first caller posted, the other caller posted another request,
\* and the first caller's re-listing gave it the id of the other caller's job
C29_Witness ==
    /\ last.err = "none"
    /\ last.ops = <<"check", "post", "check">>
    /\ Len(jobs) = 2
    /\ other.job = 2
    /\ other.req # last.req
    /\ last.ret = Str(jobs[2].id)
    /\ PayloadMatch(jobs[1], last.req.method, last.req)
    /\ ~ PayloadMatch(jobs[2], last.req.method, last.req)

PostsIn(ops) == Cardinality({i \in 1..Len(ops) : ops[i] = "post"})

\* creation POSTs known to have been issued for the first caller's request:
\* by its last ended call, its running call and the other caller
Issued ==
    PostsIn(last.ops)
       + (IF cpc # "idle" THEN PostsIn(cur.ops) ELSE 0)
       + (IF other.req = cur.req THEN other.posts ELSE 0)

JobsFor(req) ==
    Cardinality({j \in 1..Len(jobs) : PayloadMatch(jobs[j], req.method, req)})

\* C30 as stated: as long as no two calls have overlapped, at most one
\* creation POST has been issued for a request.
C30_OnePostIssued == ~ Overlap => Issued <= 1

\* C30: as long as no two calls have overlapped, at most one creation POST has
\* been accepted for a request: the identity has at most one job for it (the
\* server lists every job it created and echoes the compared fields).
C30_OnePostAccepted ==
    ~ Overlap => (JobsFor(cur.req) <= 1 /\ JobsFor(other.req) <= 1)

\* two overlapping calls for one request: both listed before either job
\* existed, both posted, and the identity has two jobs for the request
C30_Witness ==
    /\ Overlap
    /\ other.req = last.req
    /\ other.pc = "returned" /\ other.posts = 1
    /\ last.err = "none" /\ last.ops = <<"check", "post", "check">>
    /\ last.listing = <<>>
    /\ JobsFor(last.req) = 2

====
